---- MODULE Spec2Model ----
(***************************************************************************)
(* Oracle Database vector store components (text-embedding and docling     *)
(* variants): wallet resolution, wallet extraction, connection, schema     *)
(* provisioning, ingestion and retrieval, as one state machine whose steps *)
(* are the external calls made by build_vector_store / search_documents.   *)
(* CleanSpec runs _clean_metadata alone over every small mapping, and      *)
(* BedrockSpec runs the two Bedrock components up to what they build.       *)
(***************************************************************************)
EXTENDS Bags, FiniteSets, Integers, Sequences, TLC

VARIABLES
    cfg,        \* the component's configured inputs and its environment (fixed per run)
    self,       \* the component's mutable attributes: status, embedding_dimension
    pc,         \* position inside the running invocation ("idle" / "done" between calls)
    caller,     \* "build": build_vector_store called directly; "search": through search_documents
    invocation, \* number of invocations started so far
    loc,        \* locals of the running build_vector_store invocation
    fs,         \* temporary filesystem objects that exist: wallet directories, downloaded wallets
    db,         \* the database: target table, its rows, open connections
    inp,        \* the inputs the invocation has read (ingest data, dedup options, search options)
    obs,        \* what the invocation did: external calls, insert argument, result, exception
    meta,       \* a metadata mapping on its way through _clean_metadata
    aws         \* a Bedrock component: its inputs, the process environment, the session it creates

vars == <<cfg, self, pc, caller, invocation, loc, fs, db, inp, obs, meta, aws>>

----------------------------------------------------------------------------
(* Bounds of the model *)

MaxInvocations == 2
MaxIngest == 2
MaxRows == 3
MaxCleanCalls == 2

(* Program constants *)

DefaultEmbeddingDimension == 1024
DefaultNumberOfResults == 5
OtherDimension == 768

----------------------------------------------------------------------------
(* Table names and the catalog *)

ConfiguredNames == {"PDFCOLLECTION", "pdfcollection"}
StoredName == "PdfCollection"
OtherTable == "FLOW_LOG"

\* SQL UPPER() over the identifiers of the model
Upper(n) ==
    IF n \in {"PDFCOLLECTION", "pdfcollection", "PdfCollection"} THEN "PDFCOLLECTION"
    ELSE n

NoTable == [exists |-> FALSE, name |-> "", dim |-> 0, pk |-> FALSE, idx |-> FALSE,
            distance |-> "", committed |-> FALSE]

\* table names the session sees in user_tables
UserTables(d) == {OtherTable} \cup (IF d.tbl.exists THEN {d.tbl.name} ELSE {})

\* "SELECT table_name FROM user_tables WHERE UPPER(table_name) = UPPER(:table_name)"
LookupCaseSensitive(d, name) == {n \in UserTables(d) : n = name}

ExistenceLookup(d, name) == {n \in UserTables(d) : Upper(n) = Upper(name)}

\* cursor.fetchone(): a row or None (the empty string stands for None)
FetchOne(rowset) == IF rowset = {} THEN "" ELSE CHOOSE n \in rowset : TRUE

----------------------------------------------------------------------------
(* Metadata, JSON and Data records *)

\* a metadata mapping is a set of <<key, value>> pairs; values are
\* "v" (a string), "obj" (not JSON serializable), "str(obj)" (its str())
MetadataKeys == {"k", "k2", "k3"}
MetadataValues == {"v", "obj", "str(obj)"}

\* json.dumps(value) returns instead of raising TypeError or ValueError
JsonSerializable(v) == v # "obj"

\* str(value)
Str(v) == IF v = "obj" THEN "str(obj)" ELSE v

\* the body of the loop: the value itself, or its str() when json.dumps raised
CleanValueKeepsAll(v) == v

CleanValue(v) == IF JsonSerializable(v) THEN v ELSE Str(v)

\* the argument None; every other argument is a mapping
NoneMetadata == {<<"None", "None">>}

\* "if not metadata: return {}", then the loop over metadata.items()
_clean_metadata(metadata) ==
    IF metadata = NoneMetadata \/ metadata = {} THEN {}
    ELSE {<<p[1], CleanValue(p[2])>> : p \in metadata}

KeysOf(m) == IF m = NoneMetadata THEN {} ELSE {p[1] : p \in m}

\* the mappings over MetadataKeys: at most one value per key
Mappings ==
    {m \in SUBSET (MetadataKeys \X MetadataValues) :
        \A p \in m, q \in m : p[1] = q[1] => p = q}

\* the METADATA column holds JSON text: valid text carries the mapping, other text does not parse
JsonDumps(m) == [valid |-> TRUE, obj |-> m]
NotJson == [valid |-> FALSE, obj |-> {}]

\* json.loads with the JSONDecodeError fallback of _oracle_table_to_data
ParseMetadata(j) == IF j.valid THEN j.obj ELSE {}

\* Data.to_lc_document followed by _clean_metadata
ToDocument(d) == [text |-> d.text, metadata |-> _clean_metadata(d.data)]

\* the row OracleVS.add_documents writes for a document
RowOf(doc) == [text |-> doc.text, metadata |-> JsonDumps(doc.metadata)]

\* the Data built from a fetched row, after "del value.id"
DataOfRow(r) == [kind |-> "Data", text |-> r.text, data |-> ParseMetadata(r.metadata)]

DataA == [kind |-> "Data", text |-> "a", data |-> {<<"k", "v">>}]
DataB == [kind |-> "Data", text |-> "b", data |-> {}]
\* a Data record whose metadata holds a value json.dumps rejects (a datetime, say)
DataObj == [kind |-> "Data", text |-> "o", data |-> {<<"k", "obj">>}]
NonData == [kind |-> "Document", text |-> "a", data |-> {}]

IngestItems == {DataA, DataB, DataObj, NonData}

RowA == RowOf(ToDocument(DataA))
RowGarbage == [text |-> "b", metadata |-> NotJson]

ExistingRows == SetToBag({RowA, RowGarbage})

SeqsUpTo(S, n) == UNION {[1..k -> S] : k \in 0..n}

----------------------------------------------------------------------------
(* Initial state: a freshly constructed component and its environment *)

\* settings.storage_type: "other" stands for any configured value but "local" and "s3"
StorageTypes == {"local", "s3", "other"}
WalletFiles == {"none", "ok", "bad"}   \* unset / usable reference / missing path or malformed reference
Embeddings == {0, DefaultEmbeddingDimension, OtherDimension}   \* 0: no embedding model; else its output length

ExistingTable == [exists |-> TRUE, name |-> StoredName, dim |-> OtherDimension, pk |-> TRUE,
                  idx |-> TRUE, distance |-> "COSINE", committed |-> TRUE]

\* the options of the distance_strategy input, and a value that is none of them
DistanceStrategies == {"COSINE", "EUCLIDEAN_DISTANCE", "DOT_PRODUCT", "MANHATTAN"}

NoStore == [built |-> FALSE, table_name |-> "", distance_strategy |-> ""]

FreshLocals == [wallet_file_path |-> "", temp_wallet_dir |-> 0, temp_downloaded_wallet |-> 0,
                conn |-> FALSE, actual_table_name |-> "", oracle_store |-> NoStore]

FreshInputs == [ingest_data |-> <<>>, allow_duplicates |-> FALSE, limit |-> 0,
                search_query |-> "", number_of_results |-> 0]

FreshObs == [log |-> <<>>, inserted |-> <<>>, insert_calls |-> 0, scanned |-> EmptyBag,
             rows_before |-> EmptyBag, catalog_at_lookup |-> {}, result |-> "", exc |-> <<>>,
             k |-> 0, conns_before |-> 0]

\* no _clean_metadata call outside ingestion, no Bedrock component in the flow
NoCleanCall == [arg |-> {}, once |-> {}, value |-> {}, calls |-> 0]
NoBedrock == [component |-> "none"]

Init ==
    /\ cfg \in [variant : {"text", "docling"},
                storage_type : StorageTypes,
                wallet_file : WalletFiles,
                table_name : ConfiguredNames,
                distance_strategy : DistanceStrategies,
                embedding : Embeddings]
    /\ self = [status |-> "", embedding_dimension |-> DefaultEmbeddingDimension]
    /\ pc = "idle"
    /\ caller = ""
    /\ invocation = 0
    /\ loc = FreshLocals
    /\ fs = [dirs |-> {}, files |-> {}]
    /\ db \in {[tbl |-> t, rows |-> IF t.exists THEN ExistingRows ELSE EmptyBag,
                conns |-> 0, ddl |-> <<>>] : t \in {NoTable, ExistingTable}}
    /\ inp = FreshInputs
    /\ obs = FreshObs
    /\ meta = NoCleanCall
    /\ aws = NoBedrock

----------------------------------------------------------------------------
(* Helpers shared by the steps *)

Logged(c, ok) == Append(obs.log, [call |-> c, ok |-> ok])

Idle == pc \in {"idle", "done"}

\* the statement history keeps the invocation that just ended and the running one
StatementsOfLastInvocation == [db EXCEPT !.ddl = SelectSeq(@, LAMBDA e : e.inv = invocation)]

\* the caller invokes build_vector_store
CallBuild ==
    /\ Idle
    /\ invocation < MaxInvocations
    /\ invocation' = invocation + 1
    /\ caller' = "build"
    /\ pc' = "import"
    /\ loc' = FreshLocals
    /\ inp' = FreshInputs
    /\ obs' = [FreshObs EXCEPT !.conns_before = db.conns]
    /\ db' = StatementsOfLastInvocation
    /\ UNCHANGED <<meta, aws, cfg, self, fs>>

\* the caller invokes search_documents, whose first statement calls build_vector_store
CallSearch ==
    /\ Idle
    /\ cfg.variant = "text"
    /\ invocation < MaxInvocations
    /\ invocation' = invocation + 1
    /\ caller' = "search"
    /\ pc' = "import"
    /\ loc' = FreshLocals
    /\ inp' = FreshInputs
    /\ obs' = [FreshObs EXCEPT !.conns_before = db.conns]
    /\ db' = StatementsOfLastInvocation
    /\ UNCHANGED <<meta, aws, cfg, self, fs>>

\* the guarded imports at the top of build_vector_store
ImportPackages ==
    /\ pc = "import"
    /\ \/ /\ pc' = "resolve"
          /\ UNCHANGED obs
       \/ /\ pc' = "done"
          /\ obs' = [obs EXCEPT !.result = "raise", !.exc = <<"ImportError", "ImportError">>]
    /\ UNCHANGED <<meta, aws, cfg, self, caller, invocation, loc, fs, db, inp>>

----------------------------------------------------------------------------
(* Stage 1 and 2: wallet resolution and extraction *)

\* the except-block of the wallet try: rmtree of the directory and unlink of the download,
\* each only when the local variable is set (0 stands for None)
CleanupAfterWalletFailure(f, l) ==
    [dirs |-> f.dirs \ {l.temp_wallet_dir}, files |-> f.files \ {l.temp_downloaded_wallet}]

\* the finally-block of the wallet try: unlink of the tracked download
FinallyUnlinkDownload(f, l) ==
    [dirs |-> f.dirs, files |-> f.files \ {l.temp_downloaded_wallet}]

\* the wallet try-block ends in its except-block: cleanup, status, RuntimeError from e
WalletFailure(e, f, l, newlog) ==
    /\ fs' = FinallyUnlinkDownload(CleanupAfterWalletFailure(f, l), l)
    /\ self' = [self EXCEPT !.status = "Failed to extract wallet file"]
    /\ pc' = "done"
    /\ obs' = [obs EXCEPT !.log = newlog, !.result = "raise",
                          !.exc = <<"RuntimeError: Failed to extract wallet file", e>>]
    /\ UNCHANGED <<meta, aws, cfg, caller, invocation, loc, db, inp>>

WalletResolved(path, f, newlog) ==
    /\ loc' = [loc EXCEPT !.wallet_file_path = path]
    /\ fs' = f
    /\ pc' = "extract"
    /\ obs' = [obs EXCEPT !.log = newlog]
    /\ UNCHANGED <<meta, aws, cfg, self, caller, invocation, db, inp>>

\* os.path.exists(self.wallet_file)
PathExistsAlways(w) == TRUE

PathExists(w) == w = "ok"

\* parse_storage_path(self.wallet_file): the (flow_id, filename) pair, or nothing
ParseStoragePathAcceptsAll(w) == <<"flow_id", "filename">>

ParseStoragePath(w) == IF w = "ok" THEN <<"flow_id", "filename">> ELSE <<>>

\* _get_wallet_file_path, called as the first statement of the wallet try-block
ResolveWallet ==
    /\ pc = "resolve"
    /\ \/ /\ cfg.wallet_file = "none"
          /\ WalletFailure("ValueError: Wallet file is required", fs, loc, obs.log)
       \/ /\ cfg.wallet_file # "none"
          /\ cfg.storage_type = "local"
          /\ ~PathExists(cfg.wallet_file)
          /\ WalletFailure("FileNotFoundError", fs, loc, Logged("os.path.exists", TRUE))
       \/ /\ cfg.wallet_file # "none"
          /\ cfg.storage_type = "local"
          /\ PathExists(cfg.wallet_file)
          /\ WalletResolved("wallet_file", fs, Logged("os.path.exists", TRUE))
       \/ /\ cfg.wallet_file # "none"
          /\ cfg.storage_type # "local"
          /\ ParseStoragePath(cfg.wallet_file) = <<>>
          /\ WalletFailure("ValueError: Invalid S3 path format", fs, loc, obs.log)
       \/ /\ cfg.wallet_file # "none"
          /\ cfg.storage_type # "local"
          /\ ParseStoragePath(cfg.wallet_file) # <<>>
          /\ WalletFailure("StorageError", fs, loc, Logged("get_file", FALSE))
       \/ /\ cfg.wallet_file # "none"
          /\ cfg.storage_type # "local"
          /\ ParseStoragePath(cfg.wallet_file) # <<>>
          \* the temporary file is created with delete=False, then the write fails
          /\ WalletFailure("OSError", [fs EXCEPT !.files = @ \cup {invocation}], loc,
                           Logged("get_file", TRUE) \o <<[call |-> "NamedTemporaryFile.write", ok |-> FALSE]>>)
       \/ /\ cfg.wallet_file # "none"
          /\ cfg.storage_type # "local"
          /\ ParseStoragePath(cfg.wallet_file) # <<>>
          /\ WalletResolved("temp_path", [fs EXCEPT !.files = @ \cup {invocation}],
                            Logged("get_file", TRUE) \o <<[call |-> "NamedTemporaryFile.write", ok |-> TRUE]>>)

\* "if settings.storage_type == 's3': temp_downloaded_wallet = wallet_file_path"
TrackDownload(l) ==
    [l EXCEPT !.temp_downloaded_wallet = IF cfg.storage_type = "s3" THEN invocation ELSE 0]

\* the rest of the wallet try-block: tracking, mkdtemp, ZipFile(...).extractall
ExtractWallet ==
    /\ pc = "extract"
    /\ \/ WalletFailure("OSError", fs, TrackDownload(loc), Logged("mkdtemp", FALSE))
       \/ WalletFailure("BadZipFile", [fs EXCEPT !.dirs = @ \cup {invocation}],
                        [TrackDownload(loc) EXCEPT !.temp_wallet_dir = invocation],
                        Logged("mkdtemp", TRUE) \o <<[call |-> "extractall", ok |-> FALSE]>>)
       \/ /\ loc' = [TrackDownload(loc) EXCEPT !.temp_wallet_dir = invocation]
          /\ fs' = FinallyUnlinkDownload([fs EXCEPT !.dirs = @ \cup {invocation}], TrackDownload(loc))
          /\ pc' = "connect"
          /\ obs' = [obs EXCEPT !.log = Logged("mkdtemp", TRUE) \o <<[call |-> "extractall", ok |-> TRUE]>>]
          /\ UNCHANGED <<meta, aws, cfg, self, caller, invocation, db, inp>>

----------------------------------------------------------------------------
(* Stage 3: connection *)

\* the except-block of the connect try: rmtree of the wallet directory
CleanupAfterConnectFailure(f, l) == [f EXCEPT !.dirs = @ \ {l.temp_wallet_dir}]

\* a connection handed out again instead of opened
OpenConnectionPooled(d) == IF d.conns > 0 THEN d ELSE [d EXCEPT !.conns = @ + 1]

\* "conn = oracledb.connect(**connect_args)": one more open connection on the database
OpenConnection(d) == [d EXCEPT !.conns = @ + 1]

\* the connect try-block; the connection is bound to the local conn and later to the store
Connect ==
    /\ pc = "connect"
    /\ \/ /\ db' = OpenConnection(db)
          /\ loc' = [loc EXCEPT !.conn = TRUE]
          /\ pc' = "lookup"
          /\ obs' = [obs EXCEPT !.log = Logged("connect", TRUE)]
          /\ UNCHANGED <<self, fs>>
       \/ /\ fs' = CleanupAfterConnectFailure(fs, loc)
          /\ self' = [self EXCEPT !.status = "Failed to connect to Oracle Database"]
          /\ pc' = "done"
          /\ obs' = [obs EXCEPT !.log = Logged("connect", FALSE), !.result = "raise",
                                !.exc = <<"ConnectionError: Failed to connect to Oracle Database",
                                          "DatabaseError">>]
          /\ UNCHANGED <<db, loc>>
    /\ UNCHANGED <<meta, aws, cfg, caller, invocation, inp>>

----------------------------------------------------------------------------
(* Stage 3: schema provisioning *)

\* the stage that follows provisioning: the text-embedding variant validates the embedding model first
AfterProvisioning == IF cfg.variant = "text" THEN "validate_embedding" ELSE "construct_store"

\* the dimension written into "EMBEDDING VECTOR(<dim>, *)"
EmbedDim == IF cfg.variant = "text" THEN self.embedding_dimension ELSE DefaultEmbeddingDimension

\* "actual_table_name = row[0]"
ActualTableNameConfigured(row) == cfg.table_name

ActualTableNameFound(row) == row

\* the three DDL texts, by the inputs the f-strings interpolate
create_table_sql(c, embed_dim) ==
    [text |-> "CREATE TABLE", table_name |-> c.table_name, dimension |-> embed_dim]

pk_sql(c) == [text |-> "ALTER TABLE ADD PRIMARY KEY", table_name |-> c.table_name]

index_sql_configured(c) ==
    [text |-> "CREATE VECTOR INDEX", table_name |-> c.table_name,
     distance |-> c.distance_strategy, target_accuracy |-> 95]

index_sql(c) ==
    [text |-> "CREATE VECTOR INDEX", table_name |-> c.table_name,
     distance |-> "COSINE", target_accuracy |-> 95]

\* "ds_map.get(self.distance_strategy, DistanceStrategy.COSINE)"
ds_map_get(ds) ==
    IF ds \in {"COSINE", "EUCLIDEAN_DISTANCE", "DOT_PRODUCT"} THEN ds ELSE "COSINE"

Executed(stmt, sql) == Append(db.ddl, [inv |-> invocation, stmt |-> stmt, sql |-> sql])

\* conn.rollback(): the database undoes the uncommitted DDL, or has committed it implicitly
RolledBack(t) ==
    IF t.exists /\ ~t.committed THEN {NoTable, [t EXCEPT !.committed = TRUE]} ELSE {t}

\* a lookup failure that is swallowed, the build going on to the store construction
LookupFailureIgnored ==
    /\ pc' = AfterProvisioning
    /\ obs' = [obs EXCEPT !.log = Logged("SELECT", FALSE)]
    /\ UNCHANGED <<meta, aws, cfg, self, caller, invocation, loc, fs, db, inp>>

\* the outer except-block of the provisioning try, reached from the existence lookup
LookupFailure ==
    /\ self' = [self EXCEPT !.status = "Failed to validate or create table"]
    /\ pc' = "done"
    /\ obs' = [obs EXCEPT !.log = Logged("SELECT", FALSE), !.result = "raise",
                          !.exc = <<"RuntimeError: Failed to validate or create table",
                                    "DatabaseError">>]
    /\ UNCHANGED <<meta, aws, cfg, caller, invocation, loc, fs, db, inp>>

\* cursor.execute(existence lookup); row = cursor.fetchone(); the branch on "if not row"
Lookup ==
    /\ pc = "lookup"
    /\ \/ LookupFailure
       \/ /\ ExistenceLookup(db, cfg.table_name) = {}
          /\ pc' = "create_table"
          /\ obs' = [obs EXCEPT !.log = Logged("SELECT", TRUE), !.catalog_at_lookup = UserTables(db)]
          /\ UNCHANGED <<meta, aws, cfg, self, caller, invocation, loc, fs, db, inp>>
       \/ /\ ExistenceLookup(db, cfg.table_name) # {}
          /\ loc' = [loc EXCEPT !.actual_table_name =
                         ActualTableNameFound(FetchOne(ExistenceLookup(db, cfg.table_name)))]
          /\ pc' = AfterProvisioning
          /\ obs' = [obs EXCEPT !.log = Logged("SELECT", TRUE) \o <<[call |-> "cursor.close", ok |-> TRUE]>>,
                                !.catalog_at_lookup = UserTables(db)]
          /\ UNCHANGED <<meta, aws, cfg, self, caller, invocation, fs, db, inp>>

CreateFailureCommits(stmt) ==
    /\ db' = [db EXCEPT !.tbl = IF @.exists THEN [@ EXCEPT !.committed = TRUE] ELSE @]
    /\ self' = [self EXCEPT !.status = "Failed to validate or create table"]
    /\ pc' = "done"
    /\ obs' = [obs EXCEPT !.log = Logged(stmt, FALSE) \o <<[call |-> "commit", ok |-> TRUE],
                                                          [call |-> "cursor.close", ok |-> TRUE]>>,
                          !.result = "raise",
                          !.exc = <<"RuntimeError: Failed to validate or create table",
                                    "RuntimeError: Failed to create table",
                                    "DatabaseError">>]
    /\ UNCHANGED <<meta, aws, cfg, caller, invocation, loc, fs, inp>>

\* the inner except-block (rollback, cursor.close, RuntimeError from create_error), whose
\* RuntimeError the outer except-block catches and wraps again
CreateFailure(stmt) ==
    /\ \E t \in RolledBack(db.tbl) : db' = [db EXCEPT !.tbl = t]
    /\ self' = [self EXCEPT !.status = "Failed to validate or create table"]
    /\ pc' = "done"
    /\ obs' = [obs EXCEPT !.log = Logged(stmt, FALSE) \o <<[call |-> "rollback", ok |-> TRUE],
                                                          [call |-> "cursor.close", ok |-> TRUE]>>,
                          !.result = "raise",
                          !.exc = <<"RuntimeError: Failed to validate or create table",
                                    "RuntimeError: Failed to create table",
                                    "DatabaseError">>]
    /\ UNCHANGED <<meta, aws, cfg, caller, invocation, loc, fs, inp>>

DdlDone(stmt, sql, t, next) ==
    /\ db' = [db EXCEPT !.tbl = t, !.ddl = Executed(stmt, sql)]
    /\ pc' = next
    /\ obs' = [obs EXCEPT !.log = Logged(stmt, TRUE)]
    /\ UNCHANGED <<meta, aws, cfg, self, caller, invocation, loc, fs, inp>>

\* cursor.execute(create_table_sql): the unquoted identifier is stored in upper case
CreateTable ==
    /\ pc = "create_table"
    /\ \/ CreateFailure("CREATE TABLE")
       \/ /\ ~db.tbl.exists   \* a second table of that name is an error of the database
          /\ DdlDone("CREATE TABLE", create_table_sql(cfg, EmbedDim),
                  [exists |-> TRUE, name |-> Upper(create_table_sql(cfg, EmbedDim).table_name),
                   dim |-> create_table_sql(cfg, EmbedDim).dimension,
                   pk |-> FALSE, idx |-> FALSE, distance |-> "", committed |-> FALSE],
                  "add_primary_key")

\* cursor.execute(pk_sql)
AddPrimaryKey ==
    /\ pc = "add_primary_key"
    /\ \/ CreateFailure("ALTER TABLE")
       \/ DdlDone("ALTER TABLE", pk_sql(cfg), [db.tbl EXCEPT !.pk = TRUE], "create_index")

\* cursor.execute(index_sql)
CreateIndex ==
    /\ pc = "create_index"
    /\ \/ CreateFailure("CREATE VECTOR INDEX")
       \/ DdlDone("CREATE VECTOR INDEX", index_sql(cfg),
                  [db.tbl EXCEPT !.idx = TRUE, !.distance = index_sql(cfg).distance], "commit")

\* conn.commit(); actual_table_name = self.table_name; cursor.close()
Commit ==
    /\ pc = "commit"
    /\ \/ CreateFailure("commit")
       \/ /\ db' = [db EXCEPT !.tbl = [@ EXCEPT !.committed = TRUE], !.ddl = Executed("commit", [text |-> "commit"])]
          /\ loc' = [loc EXCEPT !.actual_table_name = cfg.table_name]
          /\ pc' = AfterProvisioning
          /\ obs' = [obs EXCEPT !.log = Logged("commit", TRUE) \o <<[call |-> "cursor.close", ok |-> TRUE]>>]
          /\ UNCHANGED <<meta, aws, cfg, self, caller, invocation, fs, inp>>

----------------------------------------------------------------------------
(* Embedding validation (text-embedding variant) and store construction *)

\* the try-block around self.embedding.embed_query("test")
ValidateEmbedding ==
    /\ pc = "validate_embedding"
    /\ \/ /\ cfg.embedding = 0   \* no embedding model: the attribute access raises
          /\ self' = [self EXCEPT !.status = "Failed to validate embedding model"]
          /\ pc' = "done"
          /\ obs' = [obs EXCEPT !.result = "raise",
                                !.exc = <<"RuntimeError: Failed to validate embedding model",
                                          "AttributeError">>]
       \/ /\ cfg.embedding # 0
          /\ self' = [self EXCEPT !.status = "Failed to validate embedding model"]
          /\ pc' = "done"
          /\ obs' = [obs EXCEPT !.log = Logged("embed_query", FALSE), !.result = "raise",
                                !.exc = <<"RuntimeError: Failed to validate embedding model",
                                          "EmbeddingError">>]
       \/ /\ cfg.embedding # 0
          \* "if actual_dim != expected_dim: self.embedding_dimension = actual_dim"
          /\ self' = [self EXCEPT !.embedding_dimension = cfg.embedding]
          /\ pc' = "construct_store"
          /\ obs' = [obs EXCEPT !.log = Logged("embed_query", TRUE)]
    /\ UNCHANGED <<meta, aws, cfg, caller, invocation, loc, fs, db, inp>>

\* oracle_store = OracleVS(client=conn, table_name=actual_table_name, ...)
ConstructStore ==
    /\ pc = "construct_store"
    /\ \/ /\ loc' = [loc EXCEPT !.oracle_store =
                         [built |-> TRUE, table_name |-> loc.actual_table_name,
                          distance_strategy |-> ds_map_get(cfg.distance_strategy)]]
          /\ pc' = "ingest"
          /\ obs' = [obs EXCEPT !.log = Logged("OracleVS", TRUE)]
          /\ UNCHANGED self
       \/ /\ cfg.variant = "text"   \* wrapped in try/except
          /\ self' = [self EXCEPT !.status = "Failed to create OracleVS instance"]
          /\ pc' = "done"
          /\ obs' = [obs EXCEPT !.log = Logged("OracleVS", FALSE), !.result = "raise",
                                !.exc = <<"RuntimeError: Failed to create OracleVS instance",
                                          "OracleVSError">>]
          /\ UNCHANGED loc
       \/ /\ cfg.variant = "docling"   \* not wrapped: the constructor's exception leaves as it is
          /\ pc' = "done"
          /\ obs' = [obs EXCEPT !.log = Logged("OracleVS", FALSE), !.result = "raise",
                                !.exc = <<"OracleVSError">>]
          /\ UNCHANGED <<self, loc>>
    /\ UNCHANGED <<meta, aws, cfg, caller, invocation, fs, db, inp>>

----------------------------------------------------------------------------
(* Stage 4: ingestion *)

Min(a, b) == IF a < b THEN a ELSE b
Max(a, b) == IF a > b THEN a ELSE b

Limits == {0, 1}   \* self.limit; 0 stands for unset, which "if limit:" treats like 0

\* _oracle_table_to_data's query: all rows, or any ROWNUM <= :limit of them
RowScan(rows, limit) ==
    IF limit # 0
    THEN {b \in SubBag(rows) : BagCardinality(b) = Max(0, Min(limit, BagCardinality(rows)))}
    ELSE {rows}

\* stored_documents_without_id: the fetched rows as Data, IDs deleted
StoredDocumentsWithoutId(scanned) == {DataOfRow(r) : r \in BagToSet(scanned)}

\* the loop's test "_input not in stored_documents_without_id"
DeduplicateNothing(ingest, stored) == ingest

Deduplicate(ingest, stored) == SelectSeq(ingest, LAMBDA x : x \notin stored)

Documents(items) == [i \in 1..Len(items) |-> ToDocument(items[i])]

RECURSIVE AddRows(_, _)
AddRows(rows, docs) ==
    IF docs = <<>> THEN rows ELSE AddRows(rows (+) SetToBag({RowOf(Head(docs))}), Tail(docs))

AllData(items) == \A i \in 1..Len(items) : items[i].kind = "Data"

IngestInputs == SeqsUpTo(IngestItems, MaxIngest)

\* the caller of add_documents and what follows a finished build
BuildReturns(newself, newdb, newinp, newobs) ==
    /\ self' = newself
    /\ db' = newdb
    /\ inp' = newinp
    /\ IF caller = "search"
       THEN pc' = "search" /\ obs' = newobs
       ELSE pc' = "done" /\ obs' = [newobs EXCEPT !.result = "store"]
    /\ UNCHANGED <<meta, aws, cfg, caller, invocation, loc, fs>>

BuildRaises(newself, newinp, newobs, chain) ==
    /\ self' = newself
    /\ inp' = newinp
    /\ pc' = "done"
    /\ obs' = [newobs EXCEPT !.result = "raise", !.exc = chain]
    /\ UNCHANGED <<meta, aws, cfg, caller, invocation, loc, fs, db>>

\* text-embedding variant: lines after the store construction of build_vector_store
IngestText ==
    /\ pc = "ingest"
    /\ cfg.variant = "text"
    /\ \E data \in IngestInputs :
        LET documents == Documents(data)
            newinp == [inp EXCEPT !.ingest_data = data]
            called(ok) == [obs EXCEPT !.log = Logged("add_documents", ok),
                                      !.inserted = documents, !.insert_calls = @ + 1,
                                      !.rows_before = db.rows]
        IN \/ /\ documents = <<>>
              /\ BuildReturns(self, db, newinp, [obs EXCEPT !.rows_before = db.rows])
           \/ /\ documents # <<>>
              /\ BagCardinality(db.rows) + Len(documents) <= MaxRows
              /\ BuildReturns([self EXCEPT !.status = "Successfully added documents"],
                              [db EXCEPT !.rows = AddRows(@, documents)], newinp, called(TRUE))
           \/ /\ documents # <<>>
              /\ BuildRaises([self EXCEPT !.status = "Failed to add documents"], newinp,
                             called(FALSE), <<"RuntimeError: Failed to add documents", "InsertError">>)

\* docling variant: _add_documents_to_vector_store, then the status update of build_vector_store
IngestDocling ==
    /\ pc = "ingest"
    /\ cfg.variant = "docling"
    /\ \/ \* "if not ingest_data: self.status = ''; return", then status = _oracle_table_to_data(...)
          BuildReturns([self EXCEPT !.status = "stored rows"], db, inp,
                       [obs EXCEPT !.log = Logged("SELECT rows for status", TRUE),
                                   !.rows_before = db.rows])
       \/ \E data \in IngestInputs \ {<<>>}, allow \in BOOLEAN, limit \in Limits, scanOk \in BOOLEAN :
          \E scanned \in (IF allow \/ ~scanOk THEN {EmptyBag} ELSE RowScan(db.rows, limit)) :
            LET stored == StoredDocumentsWithoutId(scanned)
                documents == Documents(Deduplicate(data, stored))
                newinp == [inp EXCEPT !.ingest_data = data, !.allow_duplicates = allow,
                                      !.limit = IF allow THEN 0 ELSE limit]
                scanlog == IF allow THEN obs.log ELSE Logged("SELECT rows", scanOk)
                seen == [obs EXCEPT !.log = scanlog, !.scanned = scanned, !.rows_before = db.rows]
                called(ok) == [seen EXCEPT !.log = Append(scanlog, [call |-> "add_documents", ok |-> ok]),
                                           !.inserted = documents, !.insert_calls = @ + 1]
                status(o) == [o EXCEPT !.log = Append(@, [call |-> "SELECT rows for status", ok |-> TRUE])]
            IN \/ /\ ~AllData(data)
                  /\ BuildRaises(self, newinp, seen, <<"TypeError: Vector Store Inputs must be Data objects.">>)
               \/ /\ AllData(data)
                  /\ documents = <<>> \/ cfg.embedding = 0
                  /\ BuildReturns([self EXCEPT !.status = "stored rows"], db, newinp, status(seen))
               \/ /\ AllData(data)
                  /\ documents # <<>> /\ cfg.embedding # 0
                  /\ BagCardinality(db.rows) + Len(documents) <= MaxRows
                  /\ BuildReturns([self EXCEPT !.status = "stored rows"],
                                  [db EXCEPT !.rows = AddRows(@, documents)], newinp, status(called(TRUE)))
               \/ /\ AllData(data)
                  /\ documents # <<>> /\ cfg.embedding # 0
                  /\ BuildRaises(self, newinp, called(FALSE), <<"InsertError">>)

----------------------------------------------------------------------------
(* Retrieval (text-embedding variant): search_documents after its build_vector_store call *)

SearchQueries == {"None", "42", "", "   ", " q "}   \* "42" stands for a value that is not a string
NumbersOfResults == {-1, 0, 3}   \* 0 stands for unset as well: "self.number_of_results or 5"
SearchTypes == {"similarity", "mmr", "similarity_score_threshold", "hybrid"}

\* the branch on self.search_type: the store call that runs the query
SearchCall(t) ==
    IF t = "mmr" THEN "max_marginal_relevance_search"
    ELSE IF t = "similarity_score_threshold" THEN "get_relevant_documents"
    ELSE "similarity_search"

\* "self.search_query and isinstance(self.search_query, str) and self.search_query.strip()"
Searchable(q) == q \notin {"None", "42", "", "   "}

\* "k = max(1, self.number_of_results or 5)"
KUnclamped(n) == IF n = 0 THEN DefaultNumberOfResults ELSE n

K(n) == Max(1, IF n = 0 THEN DefaultNumberOfResults ELSE n)

\* the except-block of the search try: status, log, "return []"
SearchFailurePropagates(o) == [o EXCEPT !.result = "raise", !.exc = <<"SearchError">>]

SearchFailureOutcome(o) == [o EXCEPT !.result = "empty list"]

Search ==
    /\ pc = "search"
    /\ pc' = "done"
    /\ \/ \E q \in SearchQueries :
            /\ ~Searchable(q)
            /\ inp' = [inp EXCEPT !.search_query = q]
            /\ obs' = [obs EXCEPT !.result = "empty list"]
            /\ UNCHANGED self
       \/ \E q \in SearchQueries, n \in NumbersOfResults, t \in SearchTypes :
            /\ Searchable(q)
            /\ inp' = [inp EXCEPT !.search_query = q, !.number_of_results = n]
            /\ obs' = [obs EXCEPT !.log = Logged(SearchCall(t), TRUE), !.k = K(n), !.result = "data list"]
            /\ self' = [self EXCEPT !.status = "search results"]
       \/ \E q \in SearchQueries, n \in NumbersOfResults, t \in SearchTypes :
            /\ Searchable(q)
            /\ inp' = [inp EXCEPT !.search_query = q, !.number_of_results = n]
            /\ obs' = SearchFailureOutcome([obs EXCEPT !.log = Logged(SearchCall(t), FALSE), !.k = K(n)])
            /\ self' = [self EXCEPT !.status = "Search failed"]
    /\ UNCHANGED <<meta, aws, cfg, caller, invocation, loc, fs, db>>

----------------------------------------------------------------------------

Next ==
    \/ CallBuild
    \/ CallSearch
    \/ ImportPackages
    \/ ResolveWallet
    \/ ExtractWallet
    \/ Connect
    \/ Lookup
    \/ CreateTable
    \/ AddPrimaryKey
    \/ CreateIndex
    \/ Commit
    \/ ValidateEmbedding
    \/ ConstructStore
    \/ IngestText
    \/ IngestDocling
    \/ Search

Spec == Init /\ [][Next]_vars

----------------------------------------------------------------------------
(* _clean_metadata on its own: every mapping, and None, sanitized and sanitized again *)

\* the vector store component at rest
ComponentAtRest ==
    /\ cfg = [variant |-> "text", storage_type |-> "local", wallet_file |-> "ok",
              table_name |-> "PDFCOLLECTION", distance_strategy |-> "COSINE",
              embedding |-> DefaultEmbeddingDimension]
    /\ self = [status |-> "", embedding_dimension |-> DefaultEmbeddingDimension]
    /\ pc = "idle"
    /\ caller = ""
    /\ invocation = 0
    /\ loc = FreshLocals
    /\ fs = [dirs |-> {}, files |-> {}]
    /\ db = [tbl |-> NoTable, rows |-> EmptyBag, conns |-> 0, ddl |-> <<>>]
    /\ inp = FreshInputs
    /\ obs = FreshObs

CleanInit ==
    /\ ComponentAtRest
    /\ aws = NoBedrock
    /\ \E m \in Mappings \cup {NoneMetadata} :
          meta = [arg |-> m, once |-> m, value |-> m, calls |-> 0]

\* value = self._clean_metadata(value)
CleanMetadata ==
    /\ meta.calls < MaxCleanCalls
    /\ meta' = [meta EXCEPT !.value = _clean_metadata(@),
                            !.once = IF meta.calls = 0 THEN _clean_metadata(meta.value) ELSE @,
                            !.calls = @ + 1]
    /\ UNCHANGED <<aws, cfg, self, pc, caller, invocation, loc, fs, db, inp, obs>>

CleanNext == CleanMetadata

CleanSpec == CleanInit /\ [][CleanNext]_vars

----------------------------------------------------------------------------
(* The Bedrock components: build_embeddings and build_model up to the object they return *)

BedrockComponents == {"embeddings", "converse"}
EnvironmentVariables == {"AWS_ACCESS_KEY_ID", "AWS_SECRET_ACCESS_KEY", "AWS_SESSION_TOKEN"}

\* os.getenv(name): the variable's value, or None
getenv(environ, name) ==
    IF name \notin environ THEN "None"
    ELSE CASE name = "AWS_ACCESS_KEY_ID" -> "env access key"
           [] name = "AWS_SECRET_ACCESS_KEY" -> "env secret key"
           [] OTHER -> "env session token"

\* truth value of a string or None
Truthy(v) == v \notin {"None", ""}

\* a dict is a set of <<key, value>> pairs; d.get(key)
DictGet(d, key) == IF \E p \in d : p[1] = key THEN (CHOOSE p \in d : p[1] = key)[2] ELSE "None"

\* _get_credentials, the same text in both components
_get_credentials(a) ==
    IF a.use_env_credentials
    THEN {<<"aws_access_key_id", getenv(a.environ, "AWS_ACCESS_KEY_ID")>>,
          <<"aws_secret_access_key", getenv(a.environ, "AWS_SECRET_ACCESS_KEY")>>,
          <<"aws_session_token", getenv(a.environ, "AWS_SESSION_TOKEN")>>}
    ELSE IF Truthy(a.aws_access_key_id) \/ Truthy(a.aws_secret_access_key)
    THEN {<<"aws_access_key_id", a.aws_access_key_id>>,
          <<"aws_secret_access_key", a.aws_secret_access_key>>,
          <<"aws_session_token", a.aws_session_token>>}
    ELSE {}

NoSession == [created |-> FALSE, branch |-> "", kwargs |-> {}]

ProfileSession(a) ==
    [created |-> TRUE, branch |-> "profile",
     kwargs |-> {<<"profile_name", a.credentials_profile_name>>}]

DefaultSession == [created |-> TRUE, branch |-> "default credentials chain", kwargs |-> {}]

\* build_embeddings: "if credentials:" / "elif self.credentials_profile_name:" / "else:"
EmbeddingsSession(a, credentials) ==
    IF credentials # {}
    THEN [created |-> TRUE, branch |-> "explicit credentials", kwargs |-> credentials]
    ELSE IF Truthy(a.credentials_profile_name) THEN ProfileSession(a)
    ELSE DefaultSession

\* build_model: "if credentials and (credentials.get(...) or credentials.get(...)):" with
\* "{k: v for k, v in credentials.items() if v}" / "elif" / "else"
ConverseSession(a, credentials) ==
    IF /\ credentials # {}
       /\ \/ Truthy(DictGet(credentials, "aws_access_key_id"))
          \/ Truthy(DictGet(credentials, "aws_secret_access_key"))
    THEN [created |-> TRUE, branch |-> "explicit credentials",
          kwargs |-> {p \in credentials : Truthy(p[2])}]
    ELSE IF Truthy(a.credentials_profile_name) THEN ProfileSession(a)
    ELSE DefaultSession

BedrockInit ==
    /\ ComponentAtRest
    /\ meta = NoCleanCall
    /\ aws \in [component : BedrockComponents,
                 use_env_credentials : BOOLEAN,
                 environ : SUBSET EnvironmentVariables,
                 aws_access_key_id : {"", "input access key"},
                 aws_secret_access_key : {"", "input secret key"},
                 aws_session_token : {"", "input session token"},
                 credentials_profile_name : {"", "dev"},
                 pc : {"idle"},
                 credentials : {{}},
                 session : {NoSession},
                 result : {""},
                 exc : {<<>>}]

BedrockStep(a) ==
    /\ aws' = a
    /\ UNCHANGED <<meta, cfg, self, pc, caller, invocation, loc, fs, db, inp, obs>>

BedrockRaises(chain) == BedrockStep([aws EXCEPT !.pc = "done", !.result = "raise", !.exc = chain])

\* the flow calls build_embeddings or build_model
CallBedrockBuild ==
    /\ aws.pc = "idle"
    /\ BedrockStep([aws EXCEPT !.pc = "import"])

\* the guarded imports of langchain_aws and boto3
ImportBedrockPackages ==
    /\ aws.pc = "import"
    /\ \/ BedrockStep([aws EXCEPT !.pc = "credentials"])
       \/ BedrockRaises(<<"ImportError", "ImportError">>)

\* credentials = self._get_credentials()
GetCredentials ==
    /\ aws.pc = "credentials"
    /\ BedrockStep([aws EXCEPT !.pc = "session", !.credentials = _get_credentials(aws)])

\* the if / elif / else around boto3.Session(...)
CreateSession ==
    /\ aws.pc = "session"
    /\ BedrockStep([aws EXCEPT !.pc = "client",
                               !.session = IF aws.component = "embeddings"
                                           THEN EmbeddingsSession(aws, aws.credentials)
                                           ELSE ConverseSession(aws, aws.credentials)])

\* session.client("bedrock-runtime", **client_params)
CreateBedrockClient ==
    /\ aws.pc = "client"
    /\ \/ BedrockStep([aws EXCEPT !.pc = "construct"])
       \/ BedrockRaises(<<"RuntimeError: Failed to create Bedrock client", "ClientError">>)

\* BedrockEmbeddings(...) or ChatBedrockConverse(**init_params)
ConstructBedrock ==
    /\ aws.pc = "construct"
    /\ \/ BedrockStep([aws EXCEPT !.pc = "done", !.result = aws.component])
       \/ /\ aws.component = "embeddings"
          /\ BedrockRaises(<<"RuntimeError: Failed to create BedrockEmbeddings", "ConstructorError">>)
       \/ /\ aws.component = "converse"
          /\ BedrockRaises(<<"ValueError: Could not initialize ChatBedrockConverse", "ConstructorError">>)

BedrockNext ==
    \/ CallBedrockBuild
    \/ ImportBedrockPackages
    \/ GetCredentials
    \/ CreateSession
    \/ CreateBedrockClient
    \/ ConstructBedrock

BedrockSpec == BedrockInit /\ [][BedrockNext]_vars

----------------------------------------------------------------------------
(* Vocabulary of the properties *)

Ended == pc = "done"
Raised == Ended /\ obs.result = "raise"

CallsMade == {obs.log[i].call : i \in DOMAIN obs.log}
FailedCalls == {obs.log[i].call : i \in {j \in DOMAIN obs.log : ~obs.log[j].ok}}

ProvisioningStatements == <<"SELECT", "CREATE TABLE", "ALTER TABLE", "CREATE VECTOR INDEX", "commit">>
ProvisioningCalls == {"SELECT", "CREATE TABLE", "ALTER TABLE", "CREATE VECTOR INDEX", "commit", "rollback"}
SearchCallNames == {SearchCall(t) : t \in SearchTypes}

\* the calls of the provisioning stage made so far by the running invocation
ProvisioningLog == SelectSeq(obs.log, LAMBDA e : e.call \in ProvisioningCalls)
StatementLog == SelectSeq(obs.log, LAMBDA e : e.call \in ProvisioningCalls \ {"rollback"})

\* the statements the database executed successfully for invocation n
StatementsOf(n) ==
    LET es == SelectSeq(db.ddl, LAMBDA e : e.inv = n) IN [i \in 1..Len(es) |-> es[i].stmt]

\* the names in the catalog, at the time of the lookup, that match the configured name
PresentAtLookup == {n \in obs.catalog_at_lookup : Upper(n) = Upper(cfg.table_name)}

----------------------------------------------------------------------------
(* C1: in search_documents, a query that is empty, whitespace-only or not a string
   yields the empty list, and no call of any kind reaches the store or the backend
   during that invocation. *)
C1_BlankQueryTouchesNothing ==
    (Ended /\ caller = "search" /\ obs.result # "raise" /\ ~Searchable(inp.search_query))
        => (obs.result = "empty list" /\ obs.log = <<>>)

(* C2: when a build_vector_store invocation ends, by returning or by raising at any
   stage, neither the wallet directory it extracted nor a wallet file it downloaded
   still exists. *)
C2_WalletTemporariesGone ==
    Ended => (invocation \notin fs.dirs /\ invocation \notin fs.files)

(* C3 as stated, for invocations whose row fetch succeeded: with deduplication on and
   an embedding model present, of M incoming Data records of which K equal some
   existing row on (text, metadata), exactly M-K are passed to the insert call,
   whatever the row-scan limit. *)
IngestionRan ==
    /\ Ended
    /\ cfg.variant = "docling"
    /\ loc.oracle_store.built
    /\ inp.ingest_data # <<>>
    /\ AllData(inp.ingest_data)
    /\ ~inp.allow_duplicates
    /\ cfg.embedding # 0

Overlap(rows) ==
    Cardinality({i \in DOMAIN inp.ingest_data :
                    \E r \in BagToSet(rows) : DataOfRow(r) = inp.ingest_data[i]})

C3_InsertsAllButExisting ==
    (IngestionRan /\ "SELECT rows" \notin FailedCalls) => Len(obs.inserted) = Len(inp.ingest_data) - Overlap(obs.rows_before)

(* C3 amended: with deduplication on and an embedding model present, of M incoming
   Data records of which K equal some row that the deduplication scan of that
   invocation returned, exactly M-K are passed to the insert call; the scan returns
   every stored row when no limit is set and the fetch succeeds. *)
C3_InsertsAllButScanned ==
    IngestionRan =>
        /\ Len(obs.inserted) = Len(inp.ingest_data) - Overlap(obs.scanned)
        /\ (inp.limit = 0 /\ "SELECT rows" \notin FailedCalls) => obs.scanned = obs.rows_before

C3_Witness ==
    /\ IngestionRan
    /\ inp.limit = 1
    /\ Len(inp.ingest_data) = 2
    /\ Overlap(obs.rows_before) = 2
    /\ Overlap(obs.scanned) = 1
    /\ Len(obs.inserted) = 1
    /\ obs.insert_calls = 1

(* C4: provisioning is idempotent. When an invocation created the table (it was
   absent) and the next invocation runs with the same table name against the same
   database, the CREATE TABLE / ALTER TABLE / CREATE VECTOR INDEX sequence has been
   executed once over the two, and the provisioning stage of the second executes the
   existence lookup and nothing else. *)
CreatedBy(n) ==
    StatementsOf(n) = <<"CREATE TABLE", "ALTER TABLE", "CREATE VECTOR INDEX", "commit">>

C4_ProvisioningIdempotent ==
    (invocation >= 2 /\ CreatedBy(invocation - 1)) =>
        /\ StatementsOf(invocation) = <<>>
        /\ \A i \in DOMAIN ProvisioningLog : ProvisioningLog[i].call = "SELECT"
        /\ Len(ProvisioningLog) <= 1
        /\ pc \notin {"create_table", "add_primary_key", "create_index", "commit"}

C4_Witness ==
    /\ invocation = 2
    /\ CreatedBy(1)
    /\ Ended
    /\ obs.result = "store"
    /\ ProvisioningLog = <<[call |-> "SELECT", ok |-> TRUE]>>
    /\ db.tbl.name # cfg.table_name

(* C5: when the lookup finds no table, provisioning executes CREATE TABLE, ALTER TABLE
   ADD PRIMARY KEY, CREATE VECTOR INDEX in that order, calls commit once and only
   after all three succeeded, and hands the configured table name to the store. *)
C5_CreateThenCommit ==
    /\ Len(StatementLog) <= Len(ProvisioningStatements)
    /\ \A i \in DOMAIN StatementLog :
          /\ StatementLog[i].call = ProvisioningStatements[i]
          /\ i < Len(StatementLog) => StatementLog[i].ok
    /\ ("commit" \in CallsMade) => ("rollback" \in CallsMade <=> "commit" \in FailedCalls)
    /\ (PresentAtLookup = {} /\ obs.catalog_at_lookup # {} /\ loc.oracle_store.built) =>
          /\ [i \in DOMAIN ProvisioningLog |-> ProvisioningLog[i].call] = ProvisioningStatements
          /\ FailedCalls \cap ProvisioningCalls = {}
          /\ loc.oracle_store.table_name = cfg.table_name

C5_Witness ==
    /\ Ended
    /\ obs.result = "store"
    /\ PresentAtLookup = {}
    /\ StatementsOf(invocation) = <<"CREATE TABLE", "ALTER TABLE", "CREATE VECTOR INDEX", "commit">>
    /\ loc.oracle_store.table_name = "pdfcollection"
    /\ db.tbl.name = "PDFCOLLECTION"

(* C6: on any failure during provisioning (the lookup, one of the three DDL
   statements, or the commit) the transaction is rolled back, no commit is performed,
   and the error raised is a provisioning error whose direct cause is the exception
   the database call raised. *)
ProvisioningFailed == Ended /\ FailedCalls \cap ProvisioningCalls # {}

C6_FailureRollsBackAndChains ==
    ProvisioningFailed =>
        /\ "rollback" \in CallsMade
        /\ "commit" \notin StatementsOf(invocation)
        /\ obs.result = "raise"
        /\ obs.exc = <<"RuntimeError: Failed to validate or create table", "DatabaseError">>

(* C7: when a table matching the configured name case-insensitively exists, the
   provisioning stage executes one SELECT and no DDL, commit or rollback, validates
   nothing about the table, and hands the catalog's stored name to the store. *)
C7_ExistingTableUntouched ==
    PresentAtLookup # {} =>
        /\ ProvisioningLog = <<[call |-> "SELECT", ok |-> TRUE]>>
        /\ StatementsOf(invocation) = <<>>
        /\ loc.actual_table_name \in PresentAtLookup
        /\ loc.oracle_store.built => loc.oracle_store.table_name \in PresentAtLookup
        /\ db.tbl.exists /\ db.tbl.name \in PresentAtLookup

C7_Witness ==
    /\ Ended
    /\ obs.result = "store"
    /\ PresentAtLookup = {StoredName}
    /\ cfg.table_name = "PDFCOLLECTION"
    /\ loc.oracle_store.table_name = StoredName
    /\ db.tbl.dim # EmbedDim

(* C8 as stated: search_documents never raises to its caller; any failure during the
   invocation, the build of the store included, becomes an empty result list. *)
C8_SearchNeverRaises ==
    (Ended /\ caller = "search") => obs.result \in {"empty list", "data list"}

(* C8 amended: a failure of the store's search call made by search_documents is caught
   and converted into an empty result list; search_documents raises only when its
   build_vector_store call raised, before any search call was made. *)
C8_SearchCallFailureIsEmpty ==
    (Ended /\ caller = "search") =>
        /\ (FailedCalls \cap SearchCallNames # {}) => (obs.result = "empty list" /\ obs.exc = <<>>)
        /\ (obs.result = "raise") => (CallsMade \cap SearchCallNames = {} /\ inp.search_query = "")

C8_Witness ==
    /\ Ended
    /\ caller = "search"
    /\ Searchable(inp.search_query)
    /\ FailedCalls \cap SearchCallNames # {}
    /\ obs.result = "empty list"
    /\ self.status = "Search failed"

(* C9: every path on which a build method raises has set the component's status to a
   human-readable error string describing that failure. *)
StatusDescribing(e) ==
    CASE e = "RuntimeError: Failed to extract wallet file" -> "Failed to extract wallet file"
      [] e = "ConnectionError: Failed to connect to Oracle Database" -> "Failed to connect to Oracle Database"
      [] e = "RuntimeError: Failed to validate or create table" -> "Failed to validate or create table"
      [] e = "RuntimeError: Failed to validate embedding model" -> "Failed to validate embedding model"
      [] e = "RuntimeError: Failed to create OracleVS instance" -> "Failed to create OracleVS instance"
      [] e = "RuntimeError: Failed to add documents" -> "Failed to add documents"
      [] e = "ImportError" -> "Could not import required packages."
      [] e = "TypeError: Vector Store Inputs must be Data objects." -> "Vector Store Inputs must be Data objects."
      [] OTHER -> e

C9_RaiseSetsStatus ==
    Raised => self.status = StatusDescribing(Head(obs.exc))

(* C10: a failure in wallet resolution, wallet extraction, connection or provisioning
   aborts the build with an exception, and before it propagates the extraction
   directory and any downloaded wallet file of that invocation have been removed. *)
FatalStageFailed ==
    /\ Ended
    /\ \/ FailedCalls \cap ({"get_file", "NamedTemporaryFile.write", "mkdtemp", "extractall",
                             "connect"} \cup ProvisioningCalls) # {}
       \/ (obs.exc # <<>> /\ Head(obs.exc) = "RuntimeError: Failed to extract wallet file")

C10_FatalFailureCleansUp ==
    FatalStageFailed =>
        /\ obs.result = "raise"
        /\ invocation \notin fs.dirs
        /\ invocation \notin fs.files

(* C11: when the wallet archive is unreadable or not a valid archive,
   build_vector_store raises the extraction error, and at that moment neither the
   extraction directory of this invocation nor a wallet file the resolver downloaded
   (in any storage mode other than local) is on disk; no connection is attempted. *)
ExtractionFailed == Ended /\ "extractall" \in FailedCalls

C11_CorruptArchiveLeavesNothing ==
    ExtractionFailed =>
        /\ obs.result = "raise"
        /\ Head(obs.exc) = "RuntimeError: Failed to extract wallet file"
        /\ invocation \notin fs.dirs
        /\ invocation \notin fs.files
        /\ "connect" \notin CallsMade

(* C12: in a storage mode other than local, a wallet reference that does not parse
   into a (flow_id, filename) pair makes the resolver raise ValueError, with no fetch
   from the storage service and no file or directory created or written. *)
\* _get_wallet_file_path has been called by the running invocation and has ended
ResolverEnded ==
    /\ pc \notin {"idle", "import", "resolve"}
    /\ ~(obs.exc # <<>> /\ Head(obs.exc) = "ImportError")

MalformedRemoteReference ==
    /\ cfg.storage_type # "local"
    /\ cfg.wallet_file = "bad"
    /\ ResolverEnded

C12_MalformedReferenceRejected ==
    MalformedRemoteReference =>
        /\ Raised
        /\ obs.exc = <<"RuntimeError: Failed to extract wallet file",
                       "ValueError: Invalid S3 path format">>
        /\ obs.log = <<>>
        /\ invocation \notin fs.dirs
        /\ invocation \notin fs.files
        /\ loc.wallet_file_path = ""

C12_Witness ==
    /\ MalformedRemoteReference
    /\ cfg.storage_type = "other"
    /\ Raised
    /\ obs.exc[2] = "ValueError: Invalid S3 path format"
    /\ fs = [dirs |-> {}, files |-> {}]

(* C13: in local storage mode, for a configured wallet path that exists the resolver
   returns exactly that path, fetches nothing from the storage service and creates no
   temporary file; for a path that does not exist it raises FileNotFoundError and
   returns nothing. *)
LocalResolverReturned ==
    /\ cfg.storage_type = "local"
    /\ cfg.wallet_file # "none"
    /\ ResolverEnded

C13_LocalPathReturnedAsIs ==
    LocalResolverReturned =>
        /\ {"get_file", "NamedTemporaryFile.write"} \cap CallsMade = {}
        /\ invocation \notin fs.files
        /\ loc.temp_downloaded_wallet = 0
        /\ cfg.wallet_file = "ok" =>
              /\ loc.wallet_file_path = "wallet_file"
              /\ obs.exc # <<>> => "FileNotFoundError" \notin {obs.exc[i] : i \in DOMAIN obs.exc}
        /\ cfg.wallet_file = "bad" =>
              /\ Raised
              /\ obs.exc = <<"RuntimeError: Failed to extract wallet file", "FileNotFoundError">>
              /\ loc.wallet_file_path = ""

C13_Witness ==
    /\ LocalResolverReturned
    /\ cfg.wallet_file = "ok"
    /\ loc.wallet_file_path = "wallet_file"
    /\ pc = "connect"
    /\ fs.files = {}

(* C14: _clean_metadata is idempotent: for every metadata mapping m, the empty one
   and None included, sanitizing the sanitized mapping returns it unchanged; and the
   sanitized mapping has exactly the keys of m, every JSON-serializable value
   unchanged and every other value replaced by its string representation. *)
C14_CleanMetadataIdempotent ==
    /\ meta.calls >= 1 =>
          /\ KeysOf(meta.once) = KeysOf(meta.arg)
          /\ \A p \in meta.arg \ NoneMetadata :
                <<p[1], IF JsonSerializable(p[2]) THEN p[2] ELSE Str(p[2])>> \in meta.once
          /\ Cardinality(meta.once) = Cardinality(KeysOf(meta.arg))
          /\ \A p \in meta.once : JsonSerializable(p[2])
    /\ meta.calls >= 2 => meta.value = meta.once

C14_Witness ==
    /\ meta.calls = 2
    /\ <<"k", "obj">> \in meta.arg
    /\ <<"k2", "v">> \in meta.arg
    /\ meta.value = {<<"k", "str(obj)">>, <<"k2", "v">>}

C14_WitnessNone ==
    /\ meta.calls = 2
    /\ meta.arg = NoneMetadata
    /\ meta.value = {}

(* C15: if no embedding model is configured, or no record is left to insert after
   deduplication, build_vector_store makes no insert call and still completes without
   raising, returning the store handle (every external call it made having succeeded
   and every incoming record being a Data). *)
ProvisioningFinished == "cursor.close" \in CallsMade /\ FailedCalls = {}

\* the incoming records that survive the deduplication of the running invocation
Surviving ==
    IF cfg.variant = "docling"
    THEN Deduplicate(inp.ingest_data, StoredDocumentsWithoutId(obs.scanned))
    ELSE inp.ingest_data

C15_NothingToInsertIsNoError ==
    (/\ Ended
     /\ caller = "build"
     /\ ProvisioningFinished
     /\ AllData(inp.ingest_data)
     /\ cfg.embedding = 0 \/ Surviving = <<>>)
        => (obs.result = "store" /\ obs.insert_calls = 0 /\ loc.oracle_store.built)

(* C16: an invocation calls add_documents at most once, with all surviving records in
   that one call; when the call fails, the exception that reaches the caller is the
   exception add_documents raised, unchanged. *)
C16_OneInsertSurfacedAsIs ==
    /\ obs.insert_calls <= 1
    /\ Cardinality({i \in DOMAIN obs.log : obs.log[i].call = "add_documents"}) = obs.insert_calls
    /\ obs.insert_calls = 1 => obs.inserted = Documents(Surviving)
    /\ "add_documents" \in FailedCalls => (Raised /\ obs.exc = <<"InsertError">>)

(* C18: whatever number_of_results is configured (positive, zero, negative or unset),
   the k that search_documents passes to the store's search call is at least 1, and
   for a positive configured value it is that value. *)
SearchCallMade == caller = "search" /\ CallsMade \cap SearchCallNames # {}

C18_KAtLeastOne ==
    SearchCallMade =>
        /\ obs.k >= 1
        /\ inp.number_of_results > 0 => obs.k = inp.number_of_results
        /\ inp.number_of_results = 0 => obs.k = DefaultNumberOfResults

C18_Witness ==
    /\ SearchCallMade
    /\ inp.number_of_results < 0
    /\ obs.k = 1
    /\ obs.result = "data list"

(* C19: when an invocation creates the table, the dimension of its EMBEDDING VECTOR
   column is the length of the vectors the configured embedding model produces (the
   configured dimension, corrected to the model's output length when they differ). *)
TableCreatedNow ==
    /\ \E i \in DOMAIN db.ddl : db.ddl[i].inv = invocation /\ db.ddl[i].stmt = "CREATE TABLE"
    /\ db.tbl.exists
    /\ cfg.embedding # 0

C19_CreatedDimensionIsModelLength ==
    TableCreatedNow => db.tbl.dim = cfg.embedding

(* C20: the DDL of provisioning does not depend on the configured distance strategy:
   for configurations that differ only in distance_strategy (COSINE,
   EUCLIDEAN_DISTANCE, DOT_PRODUCT or an unrecognized value) the three statements are
   the same and the vector index is created WITH DISTANCE COSINE, while the store
   handle receives the configured strategy, COSINE for an unrecognized value. *)
WithDistance(ds) == [cfg EXCEPT !.distance_strategy = ds]

\* the DDL texts the database executed for the running invocation
DdlOf(n) ==
    LET es == SelectSeq(db.ddl, LAMBDA e : e.inv = n /\ e.stmt # "commit")
    IN [i \in 1..Len(es) |-> es[i].sql]

\* the three statements for configuration c, at the dimension the table was created with
DdlFor(c) == <<create_table_sql(c, DdlOf(invocation)[1].dimension), pk_sql(c), index_sql(c)>>

C20_DdlIgnoresDistanceStrategy ==
    /\ \A ds \in DistanceStrategies :
          /\ create_table_sql(WithDistance(ds), EmbedDim) = create_table_sql(cfg, EmbedDim)
          /\ pk_sql(WithDistance(ds)) = pk_sql(cfg)
          /\ index_sql(WithDistance(ds)) = index_sql(cfg)
          /\ Len(DdlOf(invocation)) = 3 => DdlOf(invocation) = DdlFor(WithDistance(ds))
    /\ \A i \in DOMAIN db.ddl :
          db.ddl[i].stmt = "CREATE VECTOR INDEX" => db.ddl[i].sql.distance = "COSINE"
    /\ db.tbl.idx => db.tbl.distance = "COSINE"
    /\ loc.oracle_store.built =>
          loc.oracle_store.distance_strategy =
              (IF cfg.distance_strategy \in {"COSINE", "EUCLIDEAN_DISTANCE", "DOT_PRODUCT"}
               THEN cfg.distance_strategy ELSE "COSINE")

C20_Witness ==
    /\ Ended
    /\ obs.result = "store"
    /\ cfg.distance_strategy = "EUCLIDEAN_DISTANCE"
    /\ Len(DdlOf(invocation)) = 3
    /\ DdlOf(invocation)[3].distance = "COSINE"
    /\ loc.oracle_store.distance_strategy = "EUCLIDEAN_DISTANCE"

(* C17: in both Bedrock components the credential source of the session follows a
   strict priority: the environment variables when environment mode is on and they
   supply a key; otherwise the explicit inputs when explicit mode supplies a key;
   otherwise the named profile when one is configured; otherwise the default chain.
   Whenever the chosen mode yields neither key and a profile name is configured, the
   session is created from that profile. *)
EnvSuppliesKey(a) == {"AWS_ACCESS_KEY_ID", "AWS_SECRET_ACCESS_KEY"} \cap a.environ # {}
InputsSupplyKey(a) == a.aws_access_key_id # "" \/ a.aws_secret_access_key # ""

PrioritySource(a) ==
    IF a.use_env_credentials /\ EnvSuppliesKey(a) THEN "environment"
    ELSE IF ~a.use_env_credentials /\ InputsSupplyKey(a) THEN "inputs"
    ELSE IF a.credentials_profile_name # "" THEN "profile"
    ELSE "default"

\* what a session is created from, by the arguments boto3.Session received
SessionSource(session) ==
    IF \E p \in session.kwargs : p[1] = "profile_name" THEN "profile"
    ELSE IF \E p \in session.kwargs : Truthy(p[2]) THEN "explicit"
    ELSE "default"

Passed(session, key) ==
    IF Truthy(DictGet(session.kwargs, key)) THEN DictGet(session.kwargs, key) ELSE "None"

Given(v) == IF Truthy(v) THEN v ELSE "None"

C17_CredentialPriority ==
    aws.component \in BedrockComponents /\ aws.session.created =>
        /\ PrioritySource(aws) = "environment" =>
              /\ SessionSource(aws.session) = "explicit"
              /\ Passed(aws.session, "aws_access_key_id") = getenv(aws.environ, "AWS_ACCESS_KEY_ID")
              /\ Passed(aws.session, "aws_secret_access_key") = getenv(aws.environ, "AWS_SECRET_ACCESS_KEY")
        /\ PrioritySource(aws) = "inputs" =>
              /\ SessionSource(aws.session) = "explicit"
              /\ Passed(aws.session, "aws_access_key_id") = Given(aws.aws_access_key_id)
              /\ Passed(aws.session, "aws_secret_access_key") = Given(aws.aws_secret_access_key)
        /\ PrioritySource(aws) = "profile" =>
              /\ SessionSource(aws.session) = "profile"
              /\ DictGet(aws.session.kwargs, "profile_name") = aws.credentials_profile_name
        /\ PrioritySource(aws) = "default" => SessionSource(aws.session) = "default"

----------------------------------------------------------------------------
(* C21: every invocation that gets past wallet extraction calls connect exactly once;
   a successful connect leaves one more open connection on the database than the
   invocation found, none that an earlier invocation opened is handed out again, and
   the connection is still open however the invocation ends, because no step closes it. *)

PastExtraction == \E i \in DOMAIN obs.log : obs.log[i].call = "extractall" /\ obs.log[i].ok

ConnectCalls == SelectSeq(obs.log, LAMBDA e : e.call = "connect")

C21_OneConnectionNeverClosed ==
    /\ "close" \notin CallsMade
    /\ db.conns = obs.conns_before + (IF loc.conn THEN 1 ELSE 0)
    /\ (PastExtraction /\ pc # "connect") =>
          /\ Len(ConnectCalls) = 1
          /\ loc.conn = ConnectCalls[1].ok

\* a second invocation that connected, as the first did, and ended in a raise
C21_Witness ==
    /\ invocation = 2
    /\ Ended
    /\ obs.result = "raise"
    /\ loc.conn
    /\ obs.conns_before = 1
    /\ db.conns = 2

----------------------------------------------------------------------------
(* C22: within one invocation the external calls are made in stage order (wallet,
   connection, provisioning, embedding validation, store construction, ingestion,
   search), each stage only after the previous one succeeded: connect only after the
   archive was extracted, the lookup and the DDL only after connect succeeded, the
   store construction only after the lookup found the table or the creation was
   committed, the insert only after the store handle exists.  After a failed call
   nothing of a later stage is called: only the rollback and the cursor close of the
   failing provisioning follow, and a failed row fetch of the deduplication scan,
   which belongs to the ingestion stage itself, is followed by the rest of it. *)

WalletCalls == {"os.path.exists", "get_file", "NamedTemporaryFile.write", "mkdtemp", "extractall"}
IngestionCalls == {"SELECT rows", "add_documents", "SELECT rows for status"}

StageOf(call) ==
    IF call \in WalletCalls THEN 1
    ELSE IF call = "connect" THEN 2
    ELSE IF call \in ProvisioningCalls \cup {"cursor.close"} THEN 3
    ELSE IF call = "embed_query" THEN 4
    ELSE IF call = "OracleVS" THEN 5
    ELSE IF call \in IngestionCalls THEN 6
    ELSE 7

Succeeded(call) == \E i \in DOMAIN obs.log : obs.log[i].call = call /\ obs.log[i].ok

DdlCalls == {"CREATE TABLE", "ALTER TABLE", "CREATE VECTOR INDEX", "commit"}

C22_StagesOrderedAndGated ==
    /\ \A i, j \in DOMAIN obs.log :
          i < j =>
            /\ StageOf(obs.log[i].call) <= StageOf(obs.log[j].call)
            /\ ~obs.log[i].ok =>
                  IF obs.log[i].call = "SELECT rows"
                  THEN obs.log[j].call \in IngestionCalls
                  ELSE /\ obs.log[i].call \in DdlCalls
                       /\ obs.log[j].call \in {"rollback", "cursor.close"}
    /\ "connect" \in CallsMade => Succeeded("extractall")
    /\ CallsMade \cap ProvisioningCalls # {} => Succeeded("connect") /\ loc.conn
    /\ CallsMade \cap DdlCalls # {} => Succeeded("SELECT") /\ PresentAtLookup = {}
    /\ "OracleVS" \in CallsMade =>
          /\ Succeeded("SELECT")
          /\ PresentAtLookup # {} \/ Succeeded("commit")
          /\ cfg.variant = "text" => Succeeded("embed_query")
    /\ CallsMade \cap IngestionCalls # {} => Succeeded("OracleVS") /\ loc.oracle_store.built
    /\ CallsMade \cap SearchCallNames # {} => loc.oracle_store.built /\ "add_documents" \notin FailedCalls

\* a build that ran every stage: the table created and committed, the store built, an insert made
C22_Witness ==
    /\ Ended
    /\ obs.result = "store"
    /\ FailedCalls = {}
    /\ {"extractall", "connect", "SELECT", "commit", "OracleVS", "add_documents"} \subseteq CallsMade

----------------------------------------------------------------------------
(* C23: ingestion with deduplication on and no row-scan limit is idempotent across
   builds.  When the first build created the table and inserted a set of Data
   records, and the second build is given the same records, its row fetch succeeding,
   the second build passes no record to the insert call and leaves the rows as they
   were, whatever the metadata values of the records. *)

RowsWrittenFor(items) == {RowOf(ToDocument(items[i])) : i \in DOMAIN items}

SecondBuildOfSameRecords ==
    /\ IngestionRan
    /\ invocation = 2
    /\ CreatedBy(1)
    /\ inp.limit = 0
    /\ "SELECT rows" \in CallsMade \ FailedCalls
    /\ BagToSet(obs.rows_before) = RowsWrittenFor(inp.ingest_data)

C23_SecondBuildInsertsNothing ==
    SecondBuildOfSameRecords =>
        /\ obs.inserted = <<>>
        /\ obs.insert_calls = 0
        /\ db.rows = obs.rows_before

----------------------------------------------------------------------------
(* C24: a failure of the row fetch of the deduplication scan never makes a stored
   record be inserted again.  When deduplication is on and the fetch fails, no
   incoming record that equals a stored row is passed to the insert call. *)

RowFetchFailed == IngestionRan /\ "SELECT rows" \in FailedCalls

EqualsStoredRow(x) == \E r \in BagToSet(obs.rows_before) : DataOfRow(r) = x

PassedToInsert == {obs.inserted[i] : i \in DOMAIN obs.inserted}

C24_FetchFailureInsertsNoStoredRecord ==
    RowFetchFailed =>
        \A i \in DOMAIN inp.ingest_data :
            EqualsStoredRow(inp.ingest_data[i]) => ToDocument(inp.ingest_data[i]) \notin PassedToInsert

----------------------------------------------------------------------------
(* C25: the two Bedrock components resolve credentials alike.  For every combination
   of use_env_credentials, environment variables, key inputs and profile name, the
   session one component creates is of the same kind (explicit credentials, named
   profile, default chain) as the session the other component creates from the same
   inputs, and receives the same non-empty values. *)

SessionOfOther(a) ==
    IF a.component = "embeddings"
    THEN ConverseSession(a, _get_credentials(a))
    ELSE EmbeddingsSession(a, _get_credentials(a))

NonEmptyArguments(session) == {p \in session.kwargs : Truthy(p[2])}

C25_ComponentsResolveAlike ==
    aws.component \in BedrockComponents /\ aws.session.created =>
        /\ SessionSource(aws.session) = SessionSource(SessionOfOther(aws))
        /\ NonEmptyArguments(aws.session) = NonEmptyArguments(SessionOfOther(aws))

====
